---- MODULE Spec2Model ----
(***************************************************************************)
(* Model of the boomer load generator (boomer.go) and of its report        *)
(* aggregator.  The coordinating task (Run / runWorkers / finalize), the C *)
(* worker goroutines (runWorker), the ticker behind time.Tick and the heap *)
(* objects handled by cloneRequest are modelled statement by statement.    *)
(***************************************************************************)
EXTENDS Integers, Sequences, FiniteSets, TLC

\* ---------------------------------------------------------------- bounds
MaxN == 2
MaxC == 2
MaxClones == 2
\* value arrays allocated on the heap, and values per header key
MaxArrs == 4
MaxValues == 2
\* outcome records handed to the aggregator in the runs of StatSpec
MaxRecs == 4
\* the ticker is followed while the clock is below Horizon microseconds
Horizon == 1000000

\* ------------------------------------------------------ program constants
\* 1e6 in time.Duration(1e6/(b.Qps)) * time.Microsecond
MicrosPerSecond == 1000000

\* ------------------------------------------------------------ value sets
Nil == "nil"
EmptyMap == [k \in {} |-> 0]
HeaderKeySeq == <<"Content-Type", "X-Some">>
HeaderKeys == {HeaderKeySeq[j] : j \in 1..Len(HeaderKeySeq)}
HeaderValues == {"v", "w"}
Bodies == {<<>>, <<"B", "o">>}
\* latencies and total running times, in milliseconds
Durations == {100, 400}
Totals == {1000}
StatDurations == {0, 100, 400}
\* what one client.Do call (and, under ReadAll, the io.Copy after it) can
\* produce: a transport error, a response, a response whose body fails to read
TransportErrors == {"refused"}
Responses == {[StatusCode |-> 200, ContentLength |-> 3]}
CopyErrors == {"unexpected EOF"}

\* float64 values are named by their shortest decimal form.  The tables hold
\* the IEEE-754 results of Duration.Seconds(), float64(n), + and / on the
\* values the bounded runs can produce.
SecondsTable ==
       0 :> "0.0"
    @@ 100 :> "0.1"
    @@ 400 :> "0.4"
    @@ 1000 :> "1.0"
    @@ 3000 :> "3.0"
Float64Table == <<"0.0", "1.0", "2.0", "3.0", "4.0", "5.0">>
AddTable ==
       <<"0.0", "0.0">> :> "0.0"
    @@ <<"0.0", "0.1">> :> "0.1"
    @@ <<"0.0", "0.4">> :> "0.4"
    @@ <<"0.1", "0.0">> :> "0.1"
    @@ <<"0.1", "0.1">> :> "0.2"
    @@ <<"0.1", "0.4">> :> "0.5"
    @@ <<"0.2", "0.0">> :> "0.2"
    @@ <<"0.2", "0.1">> :> "0.30000000000000004"
    @@ <<"0.2", "0.4">> :> "0.6000000000000001"
    @@ <<"0.30000000000000004", "0.0">> :> "0.30000000000000004"
    @@ <<"0.30000000000000004", "0.1">> :> "0.4"
    @@ <<"0.30000000000000004", "0.4">> :> "0.7000000000000001"
    @@ <<"0.4", "0.0">> :> "0.4"
    @@ <<"0.4", "0.1">> :> "0.5"
    @@ <<"0.4", "0.4">> :> "0.8"
    @@ <<"0.5", "0.0">> :> "0.5"
    @@ <<"0.5", "0.1">> :> "0.6"
    @@ <<"0.5", "0.4">> :> "0.9"
    @@ <<"0.6", "0.0">> :> "0.6"
    @@ <<"0.6", "0.1">> :> "0.7"
    @@ <<"0.6", "0.4">> :> "1.0"
    @@ <<"0.6000000000000001", "0.0">> :> "0.6000000000000001"
    @@ <<"0.6000000000000001", "0.1">> :> "0.7000000000000001"
    @@ <<"0.6000000000000001", "0.4">> :> "1.0"
    @@ <<"0.7", "0.0">> :> "0.7"
    @@ <<"0.7", "0.1">> :> "0.7999999999999999"
    @@ <<"0.7", "0.4">> :> "1.1"
    @@ <<"0.7000000000000001", "0.0">> :> "0.7000000000000001"
    @@ <<"0.7000000000000001", "0.1">> :> "0.8"
    @@ <<"0.7000000000000001", "0.4">> :> "1.1"
    @@ <<"0.8", "0.0">> :> "0.8"
    @@ <<"0.8", "0.1">> :> "0.9"
    @@ <<"0.8", "0.4">> :> "1.2000000000000002"
    @@ <<"0.9", "0.0">> :> "0.9"
    @@ <<"0.9", "0.1">> :> "1.0"
    @@ <<"0.9", "0.4">> :> "1.3"
    @@ <<"1.0", "0.0">> :> "1.0"
    @@ <<"1.0", "0.1">> :> "1.1"
    @@ <<"1.0", "0.4">> :> "1.4"
    @@ <<"1.2000000000000002", "0.0">> :> "1.2000000000000002"
    @@ <<"1.2000000000000002", "0.1">> :> "1.3000000000000003"
    @@ <<"1.2000000000000002", "0.4">> :> "1.6"
    @@ <<"1.3", "0.0">> :> "1.3"
    @@ <<"1.3", "0.1">> :> "1.4000000000000001"
    @@ <<"1.3", "0.4">> :> "1.7000000000000002"
    @@ <<"1.3000000000000003", "0.0">> :> "1.3000000000000003"
    @@ <<"1.3000000000000003", "0.1">> :> "1.4000000000000004"
    @@ <<"1.3000000000000003", "0.4">> :> "1.7000000000000002"
    @@ <<"1.6", "0.0">> :> "1.6"
    @@ <<"1.6", "0.1">> :> "1.7000000000000002"
    @@ <<"1.6", "0.4">> :> "2.0"
DivTable ==
       <<"0.0", "1.0">> :> "0.0"
    @@ <<"0.0", "2.0">> :> "0.0"
    @@ <<"0.0", "3.0">> :> "0.0"
    @@ <<"0.0", "4.0">> :> "0.0"
    @@ <<"0.0", "5.0">> :> "0.0"
    @@ <<"0.1", "1.0">> :> "0.1"
    @@ <<"0.1", "2.0">> :> "0.05"
    @@ <<"0.1", "3.0">> :> "0.03333333333333333"
    @@ <<"0.1", "4.0">> :> "0.025"
    @@ <<"0.1", "5.0">> :> "0.02"
    @@ <<"0.2", "2.0">> :> "0.1"
    @@ <<"0.2", "3.0">> :> "0.06666666666666667"
    @@ <<"0.2", "4.0">> :> "0.05"
    @@ <<"0.2", "5.0">> :> "0.04"
    @@ <<"0.30000000000000004", "3.0">> :> "0.10000000000000002"
    @@ <<"0.30000000000000004", "4.0">> :> "0.07500000000000001"
    @@ <<"0.30000000000000004", "5.0">> :> "0.06000000000000001"
    @@ <<"0.4", "1.0">> :> "0.4"
    @@ <<"0.4", "2.0">> :> "0.2"
    @@ <<"0.4", "3.0">> :> "0.13333333333333333"
    @@ <<"0.4", "4.0">> :> "0.1"
    @@ <<"0.4", "5.0">> :> "0.08"
    @@ <<"0.5", "2.0">> :> "0.25"
    @@ <<"0.5", "3.0">> :> "0.16666666666666666"
    @@ <<"0.5", "4.0">> :> "0.125"
    @@ <<"0.5", "5.0">> :> "0.1"
    @@ <<"0.6", "3.0">> :> "0.19999999999999998"
    @@ <<"0.6", "4.0">> :> "0.15"
    @@ <<"0.6", "5.0">> :> "0.12"
    @@ <<"0.6000000000000001", "3.0">> :> "0.20000000000000004"
    @@ <<"0.6000000000000001", "4.0">> :> "0.15000000000000002"
    @@ <<"0.6000000000000001", "5.0">> :> "0.12000000000000002"
    @@ <<"0.7", "4.0">> :> "0.175"
    @@ <<"0.7", "5.0">> :> "0.13999999999999999"
    @@ <<"0.7000000000000001", "4.0">> :> "0.17500000000000002"
    @@ <<"0.7000000000000001", "5.0">> :> "0.14"
    @@ <<"0.7999999999999999", "5.0">> :> "0.15999999999999998"
    @@ <<"0.8", "2.0">> :> "0.4"
    @@ <<"0.8", "3.0">> :> "0.26666666666666666"
    @@ <<"0.8", "4.0">> :> "0.2"
    @@ <<"0.8", "5.0">> :> "0.16"
    @@ <<"0.9", "3.0">> :> "0.3"
    @@ <<"0.9", "4.0">> :> "0.225"
    @@ <<"0.9", "5.0">> :> "0.18"
    @@ <<"1.0", "1.0">> :> "1.0"
    @@ <<"1.0", "3.0">> :> "0.3333333333333333"
    @@ <<"1.0", "4.0">> :> "0.25"
    @@ <<"1.0", "5.0">> :> "0.2"
    @@ <<"1.1", "5.0">> :> "0.22000000000000003"
    @@ <<"1.2000000000000002", "3.0">> :> "0.4000000000000001"
    @@ <<"1.2000000000000002", "4.0">> :> "0.30000000000000004"
    @@ <<"1.2000000000000002", "5.0">> :> "0.24000000000000005"
    @@ <<"1.3", "4.0">> :> "0.325"
    @@ <<"1.3", "5.0">> :> "0.26"
    @@ <<"1.3000000000000003", "4.0">> :> "0.32500000000000007"
    @@ <<"1.3000000000000003", "5.0">> :> "0.26000000000000006"
    @@ <<"1.4", "5.0">> :> "0.27999999999999997"
    @@ <<"1.4000000000000001", "5.0">> :> "0.28"
    @@ <<"1.4000000000000004", "5.0">> :> "0.2800000000000001"
    @@ <<"1.6", "4.0">> :> "0.4"
    @@ <<"1.6", "5.0">> :> "0.32"
    @@ <<"1.7000000000000002", "5.0">> :> "0.34"
    @@ <<"2.0", "1.0">> :> "2.0"
    @@ <<"2.0", "3.0">> :> "0.6666666666666666"
    @@ <<"2.0", "5.0">> :> "0.4"
    @@ <<"3.0", "1.0">> :> "3.0"
    @@ <<"3.0", "3.0">> :> "1.0"
    @@ <<"4.0", "1.0">> :> "4.0"
    @@ <<"4.0", "3.0">> :> "1.3333333333333333"
    @@ <<"5.0", "1.0">> :> "5.0"
    @@ <<"5.0", "3.0">> :> "1.6666666666666667"

Seconds(d) == SecondsTable[d]
Float64(n) == Float64Table[n + 1]
FAdd(a, b) == AddTable[<<a, b>>]
FDiv(a, b) == IF a = "0.0" /\ b = "0.0" THEN "NaN" ELSE DivTable[<<a, b>>]

VARIABLES
    N, C, Qps, RequestBody, ReadAll, Request,   \* fields of Boomer
    heap,          \* http.Request objects, Header maps, value arrays, body readers
    mainpc,        \* position of the coordinating task
    spawned,       \* workers started so far (loop of line 123)
    i,             \* index of the enqueue loop (line 127)
    wg,            \* counter of the sync.WaitGroup
    throttle,      \* Nil (nil channel), "empty" or "tick" (one tick buffered)
    ticks,         \* ticks fired by the ticker since the run started
    jobsch, jobsClosed,
    results, resultsCap, resultsClosed,
    wpc, wreq, wbuf, wres,   \* per worker: position, request, body bytes sent, outcome
    rep,           \* the report being accumulated by finalize
    ret,           \* the *ReportResult returned by Run
    drained,       \* records finalize has received from r.results, in order
    sendCount,     \* request pointer -> number of completed client.Do calls
    delivered,     \* request pointer -> body the receiving side read
    created,       \* outcome records created so far
    crashed,       \* the process has exited on an unrecovered panic
    clones         \* requests obtained by direct calls of cloneRequest

cfgvars == <<N, C, Qps, RequestBody, ReadAll, Request>>
mainvars == <<mainpc, spawned, i, wg, throttle, ticks, jobsch, jobsClosed,
              results, resultsCap, resultsClosed, rep, ret, drained>>
workervars == <<wpc, wreq, wbuf, wres>>
histvars == <<sendCount, delivered, created, crashed>>
vars == <<cfgvars, heap, mainvars, workervars, histvars, clones>>

Workers == 1..MaxC

\* ---------------------------------------------------------------- helpers
\* m[k]++ on a Go map
Inc(m, k) ==
    [x \in DOMAIN m \cup {k} |->
        IF x = k THEN (IF k \in DOMAIN m THEN m[k] ELSE 0) + 1 ELSE m[x]]

RECURSIVE SumMap(_)
SumMap(m) ==
    IF DOMAIN m = {} THEN 0
    ELSE LET k == CHOOSE x \in DOMAIN m : TRUE
         IN m[k] + SumMap([x \in DOMAIN m \ {k} |-> m[x]])

RECURSIVE Insert(_, _)
Insert(s, x) ==
    IF s = <<>> THEN <<x>>
    ELSE IF x < Head(s) THEN <<x>> \o s
    ELSE <<Head(s)>> \o Insert(Tail(s), x)

RECURSIVE SortFloat64s(_)
SortFloat64s(s) ==
    IF s = <<>> THEN <<>> ELSE Insert(SortFloat64s(Tail(s)), Head(s))

\* time.Duration(1e6/(b.Qps)) * time.Microsecond, in microseconds
Interval(q) == MicrosPerSecond \div q

\* time.Tick(d): nil for d <= 0, else a channel with a buffer of one tick
TickChan(d) == IF d <= 0 THEN Nil ELSE "empty"

\* microseconds elapsed on the ticker's clock
Now == IF Qps > 0 THEN ticks * Interval(Qps) ELSE 0

\* make(chan *result, b.N)
ResultsCapUnbuffered(n) == 0
ResultsCap(n) == n

\* ------------------------------------------------------------ cloneRequest
HeaderView(h, m) == [k \in DOMAIN h.maps[m] |-> h.arrs[h.maps[m][k]]]

KeyPos(k) == CHOOSE j \in 1..Len(HeaderKeySeq) : HeaderKeySeq[j] = k
RankIn(ks, k) == Cardinality({x \in ks : KeyPos(x) <= KeyPos(k)})
KeyOfRank(ks, n) == CHOOSE k \in ks : RankIn(ks, k) = n

\* lines 144-147: a new map, and for every key a new array holding a copy
CopyHeaderSharedValues(h, m) ==
    [heap |-> [h EXCEPT !.maps = Append(h.maps, h.maps[m])], id |-> Len(h.maps) + 1]
CopyHeader(h, m) ==
    LET src == h.maps[m]
        ks == DOMAIN src
        base == Len(h.arrs)
    IN [heap |-> [h EXCEPT
                    !.maps = Append(h.maps, [k \in ks |-> base + RankIn(ks, k)]),
                    !.arrs = h.arrs \o [n \in 1..Cardinality(ks) |->
                                            h.arrs[src[KeyOfRank(ks, n)]]]],
        id |-> Len(h.maps) + 1]

\* line 148: ioutil.NopCloser(strings.NewReader(body))
NewBodyShared(h, r, body) == [heap |-> h, id |-> h.reqs[r].Body]
NewBody(h, r, body) ==
    [heap |-> [h EXCEPT !.readers = Append(h.readers, [s |-> body, pos |-> 0])],
     id |-> Len(h.readers) + 1]

cloneRequest(h, r, body) ==
    LET hd == CopyHeader(h, h.reqs[r].Header)
        bd == NewBody(hd.heap, r, body)
    IN [heap |-> [bd.heap EXCEPT
                    !.reqs = Append(bd.heap.reqs, [Header |-> hd.id, Body |-> bd.id])],
        req |-> Len(h.reqs) + 1]

\* ------------------------------------------------------------------- Init
\* the heap after the caller built the template: request 1 with its header
\* map (one array per key) and its body reader
TemplateHeap(hdr, body) ==
    [reqs |-> <<[Header |-> 1, Body |-> 1]>>,
     maps |-> <<[k \in DOMAIN hdr |-> RankIn(DOMAIN hdr, k)]>>,
     arrs |-> [n \in 1..Cardinality(DOMAIN hdr) |-> hdr[KeyOfRank(DOMAIN hdr, n)]],
     readers |-> <<[s |-> body, pos |-> 0]>>]

TemplateHeaders ==
    { EmptyMap,
      [k \in {"X-Some"} |-> <<"v">>],
      [k \in HeaderKeys |-> IF k = "X-Some" THEN <<"v", "w">> ELSE <<"v">>] }

\* the zero values of result and of ReportResult; FastestSecond,
\* SlowestSecond and the latencies are in milliseconds, a bucket's Second in
\* tenths of a millisecond, the other float64 fields are named values
ZeroResult == [err |-> Nil, statusCode |-> 0, duration |-> 0, contentLength |-> 0]
ZeroReportResult ==
    [TotalSecond |-> "0.0", FastestSecond |-> 0, SlowestSecond |-> 0,
     AverageSecond |-> "0.0", RequestsPerSec |-> "0.0",
     TotalSize |-> 0, SizePerRequest |-> 0,
     StatusCodeDist |-> EmptyMap, ResponseTimes |-> <<>>,
     LatencyDist |-> EmptyMap, ErrorDist |-> EmptyMap]

NewReport ==
    [errorDist |-> EmptyMap, statusCodeDist |-> EmptyMap, lats |-> <<>>,
     avgTotal |-> "0.0", sizeTotal |-> 0, total |-> 0]

InitWith(Ns, Cs, Qs, Overrides, TBodies, THeaders, RAs) ==
    /\ N \in Ns /\ C \in Cs /\ Qps \in Qs
    /\ RequestBody \in Overrides
    /\ ReadAll \in RAs
    /\ Request = 1
    /\ \E hdr \in THeaders, b \in TBodies : heap = TemplateHeap(hdr, b)
    /\ mainpc = "run" /\ spawned = 0 /\ i = 0 /\ wg = 0
    /\ throttle = Nil /\ ticks = 0
    /\ jobsch = <<>> /\ jobsClosed = FALSE
    /\ results = <<>> /\ resultsCap = 0 /\ resultsClosed = FALSE
    /\ wpc = [w \in Workers |-> "idle"]
    /\ wreq = [w \in Workers |-> 0]
    /\ wbuf = [w \in Workers |-> <<>>]
    /\ wres = [w \in Workers |-> ZeroResult]
    /\ rep = NewReport /\ ret = ZeroReportResult /\ drained = <<>>
    /\ sendCount = EmptyMap /\ delivered = EmptyMap /\ created = 0
    /\ crashed = FALSE
    /\ clones = <<>>

Init ==
    InitWith(0..MaxN, 1..MaxC, {0, 2, MicrosPerSecond + 1}, Bodies, Bodies,
             {[k \in {"X-Some"} |-> <<"v">>]}, BOOLEAN)

\* ------------------------------------------------------ coordinating task
\* Run line 63 and runWorkers lines 114-122
RunStart ==
    /\ ~crashed /\ mainpc = "run"
    /\ results' = <<>> /\ resultsCap' = ResultsCap(N)
    /\ wg' = wg + N
    /\ throttle' = IF Qps > 0 THEN TickChan(Interval(Qps)) ELSE Nil
    /\ jobsch' = <<>>
    /\ mainpc' = "spawn"
    /\ UNCHANGED <<cfgvars, heap, spawned, i, ticks, jobsClosed, resultsClosed,
                   rep, ret, drained, workervars, histvars, clones>>

\* lines 123-125: go b.runWorker(&wg, jobsch)
SpawnWorker ==
    /\ ~crashed /\ mainpc = "spawn" /\ spawned < C
    /\ spawned' = spawned + 1
    /\ wpc' = [wpc EXCEPT ![spawned + 1] = "recv"]
    /\ UNCHANGED <<cfgvars, heap, mainpc, i, wg, throttle, ticks, jobsch, jobsClosed,
                   results, resultsCap, resultsClosed, rep, ret, drained,
                   wreq, wbuf, wres, histvars, clones>>

SpawnDone ==
    /\ ~crashed /\ mainpc = "spawn" /\ spawned = C
    /\ mainpc' = "loop"
    /\ UNCHANGED <<cfgvars, heap, spawned, i, wg, throttle, ticks, jobsch, jobsClosed,
                   results, resultsCap, resultsClosed, rep, ret, drained,
                   workervars, histvars, clones>>

\* the runtime's ticker: a tick every Interval, dropped when the buffer is full
Tick ==
    /\ ~crashed /\ throttle # Nil
    /\ Now < Horizon
    /\ ticks' = ticks + 1
    /\ throttle' = "tick"
    /\ UNCHANGED <<cfgvars, heap, mainpc, spawned, i, wg, jobsch, jobsClosed,
                   results, resultsCap, resultsClosed, rep, ret, drained,
                   workervars, histvars, clones>>

\* a receive from the throttle channel can proceed
PermitFree(t) == TRUE
PermitReady(t) == t = "tick"

\* lines 127-130: i < b.N, b.Qps > 0, <-throttle
ThrottleRecv ==
    /\ ~crashed /\ mainpc = "loop" /\ i < N /\ Qps > 0
    /\ PermitReady(throttle)
    /\ throttle' = IF throttle = Nil THEN Nil ELSE "empty"
    /\ mainpc' = "send"
    /\ UNCHANGED <<cfgvars, heap, spawned, i, wg, ticks, jobsch, jobsClosed,
                   results, resultsCap, resultsClosed, rep, ret, drained,
                   workervars, histvars, clones>>

\* line 131: jobsch <- cloneRequest(b.Request, b.RequestBody); i++
Enqueue ==
    /\ ~crashed
    /\ \/ mainpc = "send"
       \/ mainpc = "loop" /\ i < N /\ ~(Qps > 0)
    /\ Len(jobsch) < N
    /\ LET c == cloneRequest(heap, Request, RequestBody)
       IN /\ heap' = c.heap
          /\ jobsch' = Append(jobsch, c.req)
    /\ i' = i + 1
    /\ mainpc' = "loop"
    /\ UNCHANGED <<cfgvars, spawned, wg, throttle, ticks, jobsClosed,
                   results, resultsCap, resultsClosed, rep, ret, drained,
                   workervars, histvars, clones>>

\* line 133: close(jobsch)
CloseJobs ==
    /\ ~crashed /\ mainpc = "loop" /\ ~(i < N)
    /\ jobsClosed' = TRUE
    /\ mainpc' = "wait"
    /\ UNCHANGED <<cfgvars, heap, spawned, i, wg, throttle, ticks, jobsch,
                   results, resultsCap, resultsClosed, rep, ret, drained,
                   workervars, histvars, clones>>

\* line 134: wg.Wait(), then Run line 68: newReport(...)
WgWait ==
    /\ ~crashed /\ mainpc = "wait" /\ wg = 0
    /\ \E t \in Totals : rep' = [NewReport EXCEPT !.total = t]
    /\ mainpc' = "finalize"
    /\ UNCHANGED <<cfgvars, heap, spawned, i, wg, throttle, ticks, jobsch, jobsClosed,
                   results, resultsCap, resultsClosed, ret, drained,
                   workervars, histvars, clones>>

\* finalize lines 60-70: one record received from r.results
CollectCountingAll(r, res) ==
    [r EXCEPT !.errorDist = IF res.err # Nil THEN Inc(r.errorDist, res.err) ELSE @,
              !.lats = IF res.err = Nil THEN Append(r.lats, res.duration) ELSE @,
              !.avgTotal = IF res.err = Nil
                           THEN FAdd(r.avgTotal, Seconds(res.duration)) ELSE @,
              !.statusCodeDist = Inc(r.statusCodeDist, res.statusCode),
              !.sizeTotal = IF res.err = Nil /\ res.contentLength > 0
                            THEN r.sizeTotal + res.contentLength ELSE @]
Collect(r, res) ==
    IF res.err # Nil
    THEN [r EXCEPT !.errorDist = Inc(r.errorDist, res.err)]
    ELSE [r EXCEPT !.lats = Append(r.lats, res.duration),
                   !.avgTotal = FAdd(r.avgTotal, Seconds(res.duration)),
                   !.statusCodeDist = Inc(r.statusCodeDist, res.statusCode),
                   !.sizeTotal = IF res.contentLength > 0
                                 THEN r.sizeTotal + res.contentLength
                                 ELSE r.sizeTotal]

FinalizeRecv ==
    /\ ~crashed /\ mainpc = "finalize" /\ results # <<>>
    /\ rep' = Collect(rep, Head(results))
    /\ drained' = Append(drained, Head(results))
    /\ results' = Tail(results)
    /\ UNCHANGED <<cfgvars, heap, mainpc, spawned, i, wg, throttle, ticks,
                   jobsch, jobsClosed, resultsCap, resultsClosed, ret,
                   workervars, histvars, clones>>

\* printLatencies, lines 114-131
Pctls == <<10, 25, 50, 75, 90, 95, 99>>
PctlLabel(p) == ToString(p) \o "%"

\* the loop of lines 118-124, i and j counted from 0
RECURSIVE PctlScan(_, _, _, _)
PctlScan(lats, k, j, data) ==
    IF ~(k < Len(lats) /\ j < Len(Pctls)) THEN data
    ELSE IF (k * 100) \div Len(lats) >= Pctls[j + 1]
         THEN PctlScan(lats, k + 1, j + 1, [data EXCEPT ![j + 1] = lats[k + 1]])
         ELSE PctlScan(lats, k + 1, j, data)

PctlData(lats) == PctlScan(lats, 0, 0, [j \in 1..Len(Pctls) |-> 0])

printLatencies(lats) ==
    LET data == PctlData(lats)
        kept == {j \in 1..Len(Pctls) : data[j] > 0}
    IN [l \in {PctlLabel(Pctls[j]) : j \in kept} |->
            data[CHOOSE j \in kept : PctlLabel(Pctls[j]) = l]]

\* printHistogram, lines 133-170
BucketCount == 10
BarWidth == 40

\* lines 135-141: the boundaries, times ten
HistBucketsShifted(fastest, slowest) ==
    [b \in 1..(BucketCount + 1) |->
        IF b = BucketCount + 1 THEN 10 * slowest
        ELSE 10 * fastest + (slowest - fastest) * b]
HistBuckets(fastest, slowest) ==
    [b \in 1..(BucketCount + 1) |->
        IF b = BucketCount + 1 THEN 10 * slowest
        ELSE 10 * fastest + (slowest - fastest) * (b - 1)]

\* the loop of lines 144-154, k and bi counted from 0; stuck when an
\* iteration advances neither k nor bi, which repeats forever
RECURSIVE HistScan(_, _, _, _, _, _, _)
HistScan(lats, buckets, k, bi, counts, max, steps) ==
    IF ~(k < Len(lats))
    THEN [counts |-> counts, max |-> max, steps |-> steps, stuck |-> FALSE]
    ELSE IF 10 * lats[k + 1] <= buckets[bi + 1]
    THEN HistScan(lats, buckets, k + 1, bi,
                  [counts EXCEPT ![bi + 1] = @ + 1],
                  IF max < counts[bi + 1] + 1 THEN counts[bi + 1] + 1 ELSE max,
                  steps + 1)
    ELSE IF bi < Len(buckets) - 1
    THEN HistScan(lats, buckets, k, bi + 1, counts, max, steps + 1)
    ELSE [counts |-> counts, max |-> max, steps |-> steps, stuck |-> TRUE]

\* the scan as print runs it: r.fastest, r.slowest from the ends of lats
HistRun(lats) ==
    HistScan(lats, HistBuckets(lats[1], lats[Len(lats)]), 0, 0,
             [b \in 1..(BucketCount + 1) |-> 0], 0, 0)

\* lines 156-169: one entry per bucket, the bar scaled by the fullest bucket
printHistogramByTotal(lats) ==
    LET buckets == HistBuckets(lats[1], lats[Len(lats)])
        sc == HistRun(lats)
    IN [b \in 1..(BucketCount + 1) |->
            [Second |-> buckets[b], Count |-> sc.counts[b],
             BarLen |-> (sc.counts[b] * BarWidth) \div Len(lats)]]
printHistogram(lats) ==
    LET buckets == HistBuckets(lats[1], lats[Len(lats)])
        sc == HistRun(lats)
    IN [b \in 1..(BucketCount + 1) |->
            [Second |-> buckets[b], Count |-> sc.counts[b],
             BarLen |-> IF sc.max > 0 THEN (sc.counts[b] * BarWidth) \div sc.max
                        ELSE 0]]

\* sort.Float64s(r.lats), line 82
NoSort(s) == s
SortedLats(s) == SortFloat64s(s)

\* print never returns when the histogram scan repeats forever
PrintHangs(r) == Len(r.lats) > 0 /\ HistRun(SortedLats(r.lats)).stuck

\* finalize lines 72-73 and print, lines 79-111
PrintReport(r) ==
    LET lats == SortedLats(r.lats)
        some == Len(lats) > 0
        rps == FDiv(Float64(Len(r.lats)), Seconds(r.total))
        average == FDiv(r.avgTotal, Float64(Len(r.lats)))
    IN [ZeroReportResult EXCEPT
        !.TotalSecond = IF some THEN Seconds(r.total) ELSE @,
        !.FastestSecond = IF some THEN lats[1] ELSE @,
        !.SlowestSecond = IF some THEN lats[Len(lats)] ELSE @,
        !.AverageSecond = IF some THEN average ELSE @,
        !.RequestsPerSec = IF some THEN rps ELSE @,
        !.TotalSize = IF some /\ r.sizeTotal > 0 THEN r.sizeTotal ELSE @,
        !.SizePerRequest = IF some /\ r.sizeTotal > 0
                           THEN r.sizeTotal \div Len(lats) ELSE @,
        !.StatusCodeDist = IF some THEN r.statusCodeDist ELSE @,
        !.ResponseTimes = IF some THEN printHistogram(lats) ELSE @,
        !.LatencyDist = IF some THEN printLatencies(lats) ELSE @,
        !.ErrorDist = IF DOMAIN r.errorDist # {} THEN r.errorDist ELSE @]

\* finalize lines 71-74: the default case of the select
FinalizeDefault ==
    /\ ~crashed /\ mainpc = "finalize" /\ results = <<>>
    /\ ~PrintHangs(rep)
    /\ ret' = PrintReport(rep)
    /\ mainpc' = "close"
    /\ UNCHANGED <<cfgvars, heap, spawned, i, wg, throttle, ticks, jobsch, jobsClosed,
                   results, resultsCap, resultsClosed, rep, drained,
                   workervars, histvars, clones>>

\* Run line 69: close(b.results)
CloseResults ==
    /\ ~crashed /\ mainpc = "close"
    /\ resultsClosed' = TRUE
    /\ mainpc' = "return"
    /\ UNCHANGED <<cfgvars, heap, spawned, i, wg, throttle, ticks, jobsch, jobsClosed,
                   results, resultsCap, rep, ret, drained, workervars, histvars, clones>>

\* Run line 71: return result
Return ==
    /\ ~crashed /\ mainpc = "return"
    /\ mainpc' = "done"
    /\ UNCHANGED <<cfgvars, heap, spawned, i, wg, throttle, ticks, jobsch, jobsClosed,
                   results, resultsCap, resultsClosed, rep, ret, drained,
                   workervars, histvars, clones>>

\* ---------------------------------------------------------------- workers
\* a receive leaves the job with the receiver only
DequeuePeek(ch) == ch
Dequeue(ch) == Tail(ch)

\* line 86: for req := range ch, a job is received
WorkerRecv(w) ==
    /\ ~crashed /\ wpc[w] = "recv" /\ jobsch # <<>>
    /\ wreq' = [wreq EXCEPT ![w] = Head(jobsch)]
    /\ jobsch' = Dequeue(jobsch)
    /\ wbuf' = [wbuf EXCEPT ![w] = <<>>]
    /\ wres' = [wres EXCEPT ![w] = ZeroResult]
    /\ wpc' = [wpc EXCEPT ![w] = "do"]
    /\ UNCHANGED <<cfgvars, heap, mainpc, spawned, i, wg, throttle, ticks, jobsClosed,
                   results, resultsCap, resultsClosed, rep, ret, drained, histvars, clones>>

\* line 86: the channel is closed and empty, the loop ends
WorkerExit(w) ==
    /\ ~crashed /\ wpc[w] = "recv" /\ jobsch = <<>> /\ jobsClosed
    /\ wpc' = [wpc EXCEPT ![w] = "exit"]
    /\ UNCHANGED <<cfgvars, heap, mainvars, wreq, wbuf, wres, histvars, clones>>

BodyOf(w) == heap.reqs[wreq[w]].Body

\* line 92, inside client.Do: the transport reads the next byte of req.Body
WorkerSendByte(w) ==
    /\ ~crashed /\ wpc[w] = "do"
    /\ LET rd == heap.readers[BodyOf(w)]
       IN /\ rd.pos < Len(rd.s)
          /\ wbuf' = [wbuf EXCEPT ![w] = Append(@, rd.s[rd.pos + 1])]
          /\ heap' = [heap EXCEPT !.readers[BodyOf(w)].pos = rd.pos + 1]
    /\ UNCHANGED <<cfgvars, mainvars, wpc, wreq, wres, histvars, clones>>

\* lines 92-100: client.Do returns a response after the body was sent
WorkerDoOk(w) ==
    /\ ~crashed /\ wpc[w] = "do"
    /\ heap.readers[BodyOf(w)].pos = Len(heap.readers[BodyOf(w)].s)
    /\ \E resp \in Responses, d \in Durations,
          cerr \in IF ReadAll THEN {Nil} \cup CopyErrors ELSE {Nil} :
          wres' = [wres EXCEPT ![w] =
                     [err |-> cerr, statusCode |-> resp.StatusCode,
                      duration |-> d, contentLength |-> resp.ContentLength]]
    /\ sendCount' = Inc(sendCount, wreq[w])
    /\ delivered' = [p \in DOMAIN delivered \cup {wreq[w]} |->
                        IF p = wreq[w] THEN wbuf[w] ELSE delivered[p]]
    /\ wpc' = [wpc EXCEPT ![w] = "wgdone"]
    /\ UNCHANGED <<cfgvars, heap, mainvars, wreq, wbuf, created, crashed, clones>>

\* lines 92-93: client.Do returns an error
WorkerDoErr(w) ==
    /\ ~crashed /\ wpc[w] = "do"
    /\ \E e \in TransportErrors, d \in Durations :
          wres' = [wres EXCEPT ![w] =
                     [err |-> e, statusCode |-> 0, duration |-> d, contentLength |-> 0]]
    /\ sendCount' = Inc(sendCount, wreq[w])
    /\ wpc' = [wpc EXCEPT ![w] = "wgdone"]
    /\ UNCHANGED <<cfgvars, heap, mainvars, wreq, wbuf, delivered, created, crashed,
                   clones>>

\* line 102: wg.Done()
WorkerDone(w) ==
    /\ ~crashed /\ wpc[w] = "wgdone"
    /\ wg' = wg - 1
    /\ wpc' = [wpc EXCEPT ![w] = "push"]
    /\ UNCHANGED <<cfgvars, heap, mainpc, spawned, i, throttle, ticks, jobsch, jobsClosed,
                   results, resultsCap, resultsClosed, rep, ret, drained,
                   wreq, wbuf, wres, histvars, clones>>

\* lines 104-109: b.results <- &result{...}; a send on a closed channel panics
WorkerPush(w) ==
    /\ ~crashed /\ wpc[w] = "push"
    /\ created' = created + 1
    /\ IF resultsClosed
       THEN /\ wpc' = [wpc EXCEPT ![w] = "panic"]
            /\ UNCHANGED results
       ELSE /\ Len(results) < resultsCap
            /\ results' = Append(results, wres[w])
            /\ wpc' = [wpc EXCEPT ![w] = "recv"]
    /\ UNCHANGED <<cfgvars, heap, mainpc, spawned, i, wg, throttle, ticks, jobsch,
                   jobsClosed, resultsCap, resultsClosed, rep, ret, drained,
                   wreq, wbuf, wres, sendCount, delivered, crashed, clones>>

\* an unrecovered panic in a goroutine ends the process
ProcessExit ==
    /\ ~crashed /\ \E w \in Workers : wpc[w] = "panic"
    /\ crashed' = TRUE
    /\ UNCHANGED <<cfgvars, heap, mainvars, workervars, sendCount, delivered, created,
                   clones>>

Main ==
    \/ RunStart \/ SpawnWorker \/ SpawnDone \/ ThrottleRecv \/ Enqueue \/ CloseJobs
    \/ WgWait \/ FinalizeRecv \/ FinalizeDefault \/ CloseResults \/ Return

Worker(w) ==
    \/ WorkerRecv(w) \/ WorkerExit(w) \/ WorkerSendByte(w) \/ WorkerDoOk(w)
    \/ WorkerDoErr(w) \/ WorkerDone(w) \/ WorkerPush(w)

Next ==
    \/ RunStart \/ SpawnWorker \/ SpawnDone \/ Tick \/ ThrottleRecv \/ Enqueue
    \/ CloseJobs \/ WgWait \/ FinalizeRecv \/ FinalizeDefault \/ CloseResults
    \/ Return \/ ProcessExit
    \/ \E w \in Workers : WorkerRecv(w)
    \/ \E w \in Workers : WorkerExit(w)
    \/ \E w \in Workers : WorkerSendByte(w)
    \/ \E w \in Workers : WorkerDoOk(w)
    \/ \E w \in Workers : WorkerDoErr(w)
    \/ \E w \in Workers : WorkerDone(w)
    \/ \E w \in Workers : WorkerPush(w)

Spec == Init /\ [][Next]_vars

\* ------------------------------------- cloneRequest and header mutations
\* a caller clones the template itself
CloneCall ==
    /\ Len(clones) < MaxClones
    /\ LET c == cloneRequest(heap, Request, RequestBody)
       IN /\ heap' = c.heap
          /\ clones' = Append(clones, c.req)
    /\ UNCHANGED <<cfgvars, mainvars, workervars, histvars>>

HeaderOf(c) == heap.reqs[clones[c]].Header

\* c.Header[k] = []string{v}
HeaderSet(c, k, v) ==
    /\ Len(heap.arrs) < MaxArrs
    /\ heap' = [heap EXCEPT
                  !.arrs = Append(@, <<v>>),
                  !.maps[HeaderOf(c)] =
                      [x \in DOMAIN @ \cup {k} |->
                          IF x = k THEN Len(heap.arrs) + 1 ELSE @[x]]]
    /\ UNCHANGED <<cfgvars, mainvars, workervars, histvars, clones>>

\* c.Header[k] = append(c.Header[k], v)
HeaderAdd(c, k, v) ==
    /\ Len(heap.arrs) < MaxArrs
    /\ LET m == heap.maps[HeaderOf(c)]
           old == IF k \in DOMAIN m THEN heap.arrs[m[k]] ELSE <<>>
       IN /\ Len(old) < MaxValues
          /\ heap' = [heap EXCEPT
                        !.arrs = Append(@, Append(old, v)),
                        !.maps[HeaderOf(c)] =
                            [x \in DOMAIN @ \cup {k} |->
                                IF x = k THEN Len(heap.arrs) + 1 ELSE @[x]]]
    /\ UNCHANGED <<cfgvars, mainvars, workervars, histvars, clones>>

\* delete(c.Header, k)
HeaderDel(c, k) ==
    /\ k \in DOMAIN heap.maps[HeaderOf(c)]
    /\ heap' = [heap EXCEPT
                  !.maps[HeaderOf(c)] = [x \in DOMAIN @ \ {k} |-> @[x]]]
    /\ UNCHANGED <<cfgvars, mainvars, workervars, histvars, clones>>

\* c.Header[k][j] = v, a write into the value list in place
HeaderWrite(c, k, j, v) ==
    /\ k \in DOMAIN heap.maps[HeaderOf(c)]
    /\ j \in 1..Len(heap.arrs[heap.maps[HeaderOf(c)][k]])
    /\ heap.arrs[heap.maps[HeaderOf(c)][k]][j] # v
    /\ heap' = [heap EXCEPT !.arrs[heap.maps[HeaderOf(c)][k]][j] = v]
    /\ UNCHANGED <<cfgvars, mainvars, workervars, histvars, clones>>

Mutate(c) ==
    \E k \in HeaderKeys, v \in HeaderValues :
        \/ HeaderSet(c, k, v) \/ HeaderAdd(c, k, v) \/ HeaderDel(c, k)
        \/ \E j \in 1..MaxValues : HeaderWrite(c, k, j, v)

CloneNext ==
    \/ CloneCall
    \/ \E c \in 1..Len(clones), k \in HeaderKeys, v \in HeaderValues : HeaderSet(c, k, v)
    \/ \E c \in 1..Len(clones), k \in HeaderKeys, v \in HeaderValues : HeaderAdd(c, k, v)
    \/ \E c \in 1..Len(clones), k \in HeaderKeys : HeaderDel(c, k)
    \/ \E c \in 1..Len(clones), k \in HeaderKeys, v \in HeaderValues,
           j \in 1..MaxValues : HeaderWrite(c, k, j, v)

CloneInit ==
    InitWith({1}, {1}, {0}, {<<"B", "o">>}, {<<"B", "o">>}, TemplateHeaders, {FALSE})

CloneSpec == CloneInit /\ [][CloneNext]_vars

\* ------------------------------------------------------------ aggregation
\* the records a run can hand to the aggregator
StatRecords ==
    {[err |-> Nil, statusCode |-> 200, duration |-> d, contentLength |-> 3] :
        d \in StatDurations}
    \cup {[err |-> "refused", statusCode |-> 0, duration |-> 100, contentLength |-> 0],
          [err |-> "unexpected EOF", statusCode |-> 200, duration |-> 100,
           contentLength |-> 3]}

RECURSIVE SeqsUpTo(_, _)
SeqsUpTo(S, n) ==
    IF n = 0 THEN {<<>>}
    ELSE LET shorter == SeqsUpTo(S, n - 1)
         IN shorter \cup {Append(q, x) : q \in shorter, x \in S}

RECURSIVE CloneN(_, _, _)
CloneN(h, body, n) ==
    IF n = 0 THEN h ELSE CloneN(cloneRequest(h, 1, body).heap, body, n - 1)

\* a run of one worker whose n records are all in the results channel when
\* wg.Wait() returns and newReport has been called
StatInit ==
    \E recs \in SeqsUpTo(StatRecords, MaxRecs), t \in Totals :
        LET n == Len(recs) IN
        /\ N = n /\ C = 1 /\ Qps = 0 /\ RequestBody = <<>> /\ ReadAll = TRUE
        /\ Request = 1
        /\ heap = CloneN(TemplateHeap([k \in {"X-Some"} |-> <<"v">>], <<>>), <<>>, n)
        /\ mainpc = "finalize" /\ spawned = 1 /\ i = n /\ wg = 0
        /\ throttle = Nil /\ ticks = 0
        /\ jobsch = <<>> /\ jobsClosed = TRUE
        /\ results = recs /\ resultsCap = n /\ resultsClosed = FALSE
        /\ wpc = [w \in Workers |-> IF w = 1 THEN "exit" ELSE "idle"]
        /\ wreq = [w \in Workers |-> IF w = 1 /\ n > 0 THEN n + 1 ELSE 0]
        /\ wbuf = [w \in Workers |-> <<>>]
        /\ wres = [w \in Workers |-> IF w = 1 /\ n > 0 THEN recs[n] ELSE ZeroResult]
        /\ rep = [NewReport EXCEPT !.total = t]
        /\ ret = ZeroReportResult /\ drained = <<>>
        /\ sendCount = [p \in 2..(n + 1) |-> 1]
        /\ delivered = [p \in {k + 1 : k \in {x \in 1..n : recs[x].statusCode # 0}} |-> <<>>]
        /\ created = n /\ crashed = FALSE
        /\ clones = <<>>

StatNext == FinalizeRecv \/ FinalizeDefault \/ CloseResults \/ Return

StatSpec == StatInit /\ [][StatNext]_vars

\* the Go scheduler runs every runnable goroutine, the ticker keeps firing
\* and a panicking process exits
FairSpec ==
    /\ Init /\ [][Next]_vars
    /\ WF_vars(Main) /\ WF_vars(Tick) /\ WF_vars(ProcessExit)
    /\ \A w \in Workers : WF_vars(Worker(w))

\* runs with the limiter on: a rate whose interval divides the second, the
\* smallest rate whose truncated interval does not, and a rate above 1e6
PacedInit ==
    \/ InitWith(1..MaxN, 1..MaxC, {2, MicrosPerSecond + 1}, {<<"B">>}, {<<>>},
                {[k \in {"X-Some"} |-> <<"v">>]}, {TRUE})
    \/ InitWith({1}, {1}, {1032}, {<<"B">>}, {<<>>},
                {[k \in {"X-Some"} |-> <<"v">>]}, {FALSE})

PacedSpec == PacedInit /\ [][Next]_vars

\* ------------------------------------------------------------ definitions
Unlimited == ~(Qps > 0)
RunWorkersReturned == mainpc \in {"finalize", "close", "return", "done"}
Active(w) == wpc[w] \in {"do", "wgdone", "push"}
Sends == SumMap(sendCount)
\* records the aggregator has received so far
Collected == Len(rep.lats) + SumMap(rep.errorDist)
TemplateBody == heap.readers[heap.reqs[Request].Body]
JobReqs == 2..Len(heap.reqs)

\* ------------------------------------------------------------------ claims

\* C1: with no rate limit the report returned by Run accounts for exactly N
\* outcomes: sum(StatusCodeDist) + sum(ErrorDist) = N.
C1_ReportAccountsForN ==
    (Unlimited /\ mainpc = "done") =>
        SumMap(ret.StatusCodeDist) + SumMap(ret.ErrorDist) = N

\* C2: once runWorkers has returned (wg.Wait released), all N outcome records
\* have been pushed onto the results channel, so the drain sees all of them.
C2_BarrierAfterAllPushed ==
    mainpc = "finalize" => Len(results) + Collected = N

\* C3: every enqueued job is taken by one worker, sent once and yields one
\* outcome record: never more than N sends or records, exactly N sends once
\* the barrier is passed, exactly N records once every worker has left.
C3_OneOutcomePerJob ==
    /\ \A p \in DOMAIN sendCount : sendCount[p] = 1 /\ p \in JobReqs
    /\ \A k \in 1..Len(jobsch) :
         /\ jobsch[k] \notin DOMAIN sendCount
         /\ \A w \in Workers : Active(w) => wreq[w] # jobsch[k]
         /\ \A l \in 1..Len(jobsch) : jobsch[k] = jobsch[l] => k = l
    /\ \A w1, w2 \in Workers :
         (Active(w1) /\ Active(w2) /\ wreq[w1] = wreq[w2]) => w1 = w2
    /\ created <= Sends /\ Sends <= i /\ i <= N
    /\ RunWorkersReturned => Sends = N
    /\ (\A w \in 1..C : wpc[w] = "exit") => created = N

C3_Witness ==
    /\ N = 2 /\ C = 2 /\ mainpc = "done" /\ created = 2
    /\ wpc[1] = "exit" /\ wpc[2] = "exit"
    /\ DOMAIN ret.StatusCodeDist # {} /\ DOMAIN ret.ErrorDist # {}

\* C4: with the limiter disabled, under fair scheduling and a transport that
\* always returns, Run terminates and returns a report.
C4_RunTerminates == Unlimited => <>(mainpc = "done")

\* C5: a worker's push onto the results channel never blocks: the channel
\* never holds more than its capacity N, and whenever a worker stands at the
\* push of an open channel there is room for its record.
C5_PushNeverBlocks ==
    /\ Len(results) <= resultsCap
    /\ mainpc # "run" => resultsCap = N
    /\ \A w \in Workers :
         (wpc[w] = "push" /\ ~resultsClosed) => Len(results) < resultsCap

C5_Witness ==
    /\ N = 2 /\ Len(results) = 1 /\ ~resultsClosed
    /\ \E w \in Workers : wpc[w] = "push"

\* permits the enqueue loop has received from the throttle channel
PermitsTaken == i + (IF mainpc = "send" THEN 1 ELSE 0)
\* ticks that fire within one second at rate q
TicksPerSecond(q) == MicrosPerSecond \div Interval(q)
NothingSent == Sends = 0 /\ \A w \in Workers : ~Active(w)

C7_ZeroIntervalDisabled ==
    (Qps > 0 /\ Interval(Qps) = 0) => ~(mainpc = "loop" /\ i < N)

\* what a holder of request p observes: its headers and its body reader
ViewOf(h, p) ==
    [Header |-> HeaderView(h, h.reqs[p].Header), Body |-> h.readers[h.reqs[p].Body]]

C9_OverrideBodyDelivered ==
    RequestBody # <<>> =>
        /\ \A p \in JobReqs :
             /\ heap.readers[heap.reqs[p].Body].s = RequestBody
             /\ heap.reqs[p].Body # heap.reqs[Request].Body
             /\ \A q \in JobReqs : heap.reqs[p].Body = heap.reqs[q].Body => p = q
        /\ \A k \in 1..Len(jobsch) : heap.readers[heap.reqs[jobsch[k]].Body].pos = 0
        /\ \A w \in Workers :
             wpc[w] = "do" => wbuf[w] = SubSeq(RequestBody, 1, heap.readers[BodyOf(w)].pos)
        /\ \A p \in DOMAIN delivered : delivered[p] = RequestBody

C9_Witness ==
    /\ RequestBody = <<"B", "o">> /\ N = 2 /\ C = 2
    /\ DOMAIN delivered = {2}
    /\ wpc[2] = "do" /\ Len(wbuf[2]) = 1

\* C10: with no body override, every dispatched request delivers the body
\* of the request template.
C10_TemplateBodyDelivered ==
    RequestBody = <<>> => \A p \in DOMAIN delivered : delivered[p] = TemplateBody.s

\* --------------------------------------------------- aggregation, claims
\* finalize has returned the report
Reported == mainpc \in {"close", "return", "done"}
Successes == Len(rep.lats)
Orderings(n) == {p \in [1..n -> 1..n] : \A a, b \in 1..n : p[a] = p[b] => a = b}

\* finalize over a whole sequence of records
RECURSIVE CollectAll(_, _)
CollectAll(r, recs) ==
    IF recs = <<>> THEN r ELSE CollectAll(Collect(r, Head(recs)), Tail(recs))

ReportOf(recs, total) == PrintReport(CollectAll([NewReport EXCEPT !.total = total], recs))

\* C11: the report does not depend on the order in which the records arrive:
\* every permutation of the received records gives the same summary,
\* distributions, percentiles and histogram.
C11_OrderIndependent ==
    Reported =>
        \A p \in Orderings(Len(drained)) :
            ReportOf([k \in 1..Len(drained) |-> drained[p[k]]], rep.total) = ret

RECURSIVE SumCounts(_, _)
SumCounts(h, b) == IF b = 0 THEN 0 ELSE h[b].Count + SumCounts(h, b - 1)

\* C12: with at least one success the histogram has BucketCount + 1 buckets
\* whose counts sum to the number of successes, every bar length is at most
\* 40, and the fullest bucket has bar length 40.
C12_HistogramNormalised ==
    (Reported /\ Successes > 0) =>
        /\ DOMAIN ret.ResponseTimes = 1..(BucketCount + 1)
        /\ SumCounts(ret.ResponseTimes, BucketCount + 1) = Successes
        /\ \A b \in 1..(BucketCount + 1) :
             ret.ResponseTimes[b].BarLen >= 0 /\ ret.ResponseTimes[b].BarLen <= BarWidth
        /\ \E b \in 1..(BucketCount + 1) : ret.ResponseTimes[b].BarLen = BarWidth

C12_Witness ==
    /\ Reported /\ Successes = 3
    /\ \E b, c \in 1..(BucketCount + 1) :
         /\ ret.ResponseTimes[b].Count = 2 /\ ret.ResponseTimes[b].BarLen = BarWidth
         /\ ret.ResponseTimes[c].Count = 1 /\ ret.ResponseTimes[c].BarLen = 20

\* indices (from 0) of the sorted list at which i * 100 / len reaches p
Qualifying(len, p) == {k \in 0..(len - 1) : (k * 100) \div len >= p}
Least(S) == CHOOSE k \in S : \A l \in S : k <= l

\* C13: the value reported for percentile p is the latency at the smallest
\* index i of the sorted list with i * 100 / len >= p, and p is absent from
\* the report exactly when no index satisfies it.
C13_PercentileAtLeastIndex ==
    (Reported /\ Successes > 0) =>
        LET lats == SortFloat64s(rep.lats) IN
        \A j \in 1..Len(Pctls) :
            LET q == Qualifying(Len(lats), Pctls[j]) IN
            /\ (PctlLabel(Pctls[j]) \notin DOMAIN ret.LatencyDist) <=> (q = {})
            /\ q # {} => ret.LatencyDist[PctlLabel(Pctls[j])] = lats[Least(q) + 1]

\* the lowest-index bucket whose reported boundary is at least the latency
BucketsFor(h, lat) == {b \in DOMAIN h : 10 * lat <= h[b].Second}

\* C14: the reported boundaries are fastest + k * (slowest - fastest) / 10 with
\* the last one slowest, and every successful latency is counted in exactly
\* one bucket, the lowest-index one whose boundary is at least the latency.
C14_LowestBucketAtLeast ==
    (Reported /\ Successes > 0) =>
        LET h == ret.ResponseTimes IN
        /\ \A b \in 1..(BucketCount + 1) :
             h[b].Second = HistBuckets(ret.FastestSecond, ret.SlowestSecond)[b]
        /\ \A k \in 1..Successes : BucketsFor(h, rep.lats[k]) # {}
        /\ \A b \in 1..(BucketCount + 1) :
             h[b].Count =
               Cardinality({k \in 1..Successes : Least(BucketsFor(h, rep.lats[k])) = b})

C14_Witness ==
    /\ Reported /\ Successes = 4
    /\ ret.ResponseTimes[1].Count = 1 /\ ret.ResponseTimes[4].Count = 2
    /\ ret.ResponseTimes[BucketCount + 1].Count = 1

\* successes whose latency equals the slowest one
AtSlowest == {k \in 1..Successes : rep.lats[k] = ret.SlowestSecond}

\* C15 (as claimed): the latencies equal to the slowest one are counted in the
\* final bucket (index 10), also with a single success or all latencies equal.
C15_SlowestInFinalBucket ==
    (Reported /\ Successes > 0) =>
        ret.ResponseTimes[BucketCount + 1].Count = Cardinality(AtSlowest)

\* C15 (amended): the latencies equal to the slowest one are counted in the
\* final bucket when slowest > fastest; when all successful latencies are
\* equal (a single success included) every boundary equals that latency and
\* all of them are counted in the first bucket (index 0).
C15_SlowestInFinalUnlessEqual ==
    (Reported /\ Successes > 0) =>
        IF ret.SlowestSecond > ret.FastestSecond
        THEN ret.ResponseTimes[BucketCount + 1].Count = Cardinality(AtSlowest)
        ELSE /\ ret.ResponseTimes[1].Count = Successes
             /\ ret.ResponseTimes[BucketCount + 1].Count = 0

C15_Witness ==
    /\ Reported /\ Successes = 3 /\ ret.SlowestSecond > ret.FastestSecond
    /\ ret.ResponseTimes[BucketCount + 1].Count = 2

\* the shapes of an outcome record
IsSuccess(res) ==
    /\ res.err = Nil
    /\ [StatusCode |-> res.statusCode, ContentLength |-> res.contentLength] \in Responses
IsTransportFailure(res) ==
    res.err \in TransportErrors /\ res.statusCode = 0 /\ res.contentLength = 0
IsBodyReadFailure(res) ==
    /\ res.err \in CopyErrors /\ ReadAll
    /\ [StatusCode |-> res.statusCode, ContentLength |-> res.contentLength] \in Responses
WithErr(recs, e) == {k \in 1..Len(recs) : recs[k].err = e}
WithCode(recs, c) == {k \in 1..Len(recs) : recs[k].err = Nil /\ recs[k].statusCode = c}

\* C16: failures are captured as data. A record with a transport error has
\* statusCode 0 and contentLength 0; a record with a body-read error (ReadAll)
\* keeps the response's status code and content length; the aggregator counts
\* records with an error in the error distribution only, by message, and
\* never in the status-code distribution or the latency list.
C16_FailuresAsData ==
    /\ \A w \in Workers :
         wpc[w] \in {"wgdone", "push"} =>
             IsSuccess(wres[w]) \/ IsTransportFailure(wres[w]) \/ IsBodyReadFailure(wres[w])
    /\ \A k \in 1..Len(results) :
         IsSuccess(results[k]) \/ IsTransportFailure(results[k])
           \/ IsBodyReadFailure(results[k])
    /\ Len(rep.lats) = Cardinality(WithErr(drained, Nil))
    /\ DOMAIN rep.errorDist = {drained[k].err : k \in 1..Len(drained)} \ {Nil}
    /\ \A e \in DOMAIN rep.errorDist : rep.errorDist[e] = Cardinality(WithErr(drained, e))
    /\ DOMAIN rep.statusCodeDist = {drained[k].statusCode : k \in WithErr(drained, Nil)}
    /\ \A c \in DOMAIN rep.statusCodeDist :
         rep.statusCodeDist[c] = Cardinality(WithCode(drained, c))
    /\ Reported => /\ SumMap(ret.StatusCodeDist) = Cardinality(WithErr(drained, Nil))
                   /\ SumMap(ret.ErrorDist) = Len(drained) - Cardinality(WithErr(drained, Nil))

C16_Witness ==
    /\ Reported /\ Len(drained) = 2
    /\ IsBodyReadFailure(drained[1]) /\ drained[1].statusCode = 200
    /\ IsTransportFailure(drained[2])
    /\ ret.StatusCodeDist = EmptyMap /\ ret.LatencyDist = EmptyMap
    /\ ret.ErrorDist = [e \in {"unexpected EOF", "refused"} |-> 1]

\* C17: the job queue is closed once, only after all N jobs are enqueued and
\* never written afterwards; all C workers are started before the first job
\* is enqueued; a worker leaves its loop only when the queue is closed and
\* empty, so no job is left when the last worker exits; and after the close
\* every worker eventually leaves its loop.
C17_QueueClosedAfterAll ==
    /\ [](jobsClosed => (i = N /\ mainpc \notin {"run", "spawn", "loop", "send"}))
    /\ []((i > 0 \/ jobsch # <<>>) => spawned = C)
    /\ [](\A w \in 1..C : wpc[w] = "exit" => (jobsClosed /\ jobsch = <<>>))
    /\ [][jobsClosed => (jobsClosed' /\ Len(jobsch') <= Len(jobsch))]_vars
    /\ (jobsClosed ~> (\A w \in 1..C : wpc[w] = "exit"))

\* C18: no worker pushes onto the results channel after Run has closed it:
\* once the channel is closed no worker has a record still to push.
C18_NoPushAfterClose ==
    resultsClosed => \A w \in Workers : ~Active(w) /\ wpc[w] # "panic"

\* C19: the reported percentiles are non-decreasing in the percentile and
\* each lies between FastestSecond and SlowestSecond.
C19_PercentilesMonotone ==
    (Reported /\ Successes > 0) =>
        LET present == {j \in 1..Len(Pctls) : PctlLabel(Pctls[j]) \in DOMAIN ret.LatencyDist}
            val(j) == ret.LatencyDist[PctlLabel(Pctls[j])]
        IN /\ \A j \in present :
                ret.FastestSecond <= val(j) /\ val(j) <= ret.SlowestSecond
           /\ \A j1, j2 \in present : j1 < j2 => val(j1) <= val(j2)

C19_Witness ==
    /\ Reported /\ Successes = 4
    /\ DOMAIN ret.LatencyDist = {"10%", "25%", "50%"}
    /\ ret.LatencyDist["10%"] = 100 /\ ret.LatencyDist["25%"] = 400
    /\ ret.LatencyDist["50%"] = 400

\* C20: for every non-empty sorted latency list the histogram scan
\* terminates: it never reaches the state where the latency exceeds the last
\* boundary with the bucket pointer at the end, and it takes at most
\* len + BucketCount iterations.
C20_HistogramScanTerminates ==
    ((mainpc = "finalize" \/ Reported) /\ Successes > 0) =>
        LET run == HistRun(SortedLats(rep.lats))
        IN ~run.stuck /\ run.steps <= Successes + BucketCount

C20_Witness ==
    /\ Reported /\ Successes = 2
    /\ HistRun(SortedLats(rep.lats)).steps = 2 + BucketCount
    /\ ret.ResponseTimes[BucketCount + 1].Count = 1
====
